---- MODULE Spec2Model ----
(***************************************************************************)
(* The to-do list store of week1-todo-app/main.py (class TodoApp): two     *)
(* in-memory views of the tasks (tasks_list, tasks_dict) that share the    *)
(* task objects, the counter next_id, and the JSON file the store is       *)
(* loaded from and saved to.                                               *)
(*                                                                         *)
(* Python objects live in `heap` (address -> task dict); tasks_list holds  *)
(* addresses and tasks_dict maps ids to addresses, so that aliasing        *)
(* between the two views is a fact of the state and not an assumption.     *)
(* Text is a sequence of one-character strings, so that str.strip() and    *)
(* the decimal form of a JSON number are computed, not assumed.            *)
(***************************************************************************)
EXTENDS Integers, Sequences, FiniteSets, TLC

\* ---------------------------------------------------------------- bounds

\* Add is not offered once next_id exceeds MaxId.
MaxId == 2

\* I/O errors (a failed open, a failed write) the environment may inject.
MaxFaults == 1

\* ------------------------------------------------------------------ text

Whitespace == {" "}

High == <<"H", "i", "g", "h">>

Medium == <<"M", "e", "d", "i", "u", "m">>

Low == <<"L", "o", "w">>

\* The list literal of run(), line 309.
Priorities == {High, Medium, Low}

\* What the user may type as a title (line 304), before strip().
RawTitles == {<<>>, <<" ", "a", " ">>}

\* What the user may type as a priority (line 308), before strip(); nothing
\* typed means the default, Medium.
RawPriorities == {<<>>, High, <<" ">> \o Low, <<"T", "o", "p">>}

\* datetime.now().strftime("%Y-%m-%d %H:%M:%S") at the time of an add.
Timestamps == {"2025-01-06 09:00:00"}

\* Ids a caller may pass to complete_task and delete_task; 0 is never assigned.
IdInputs == 0..MaxId

\* filter_by = None; line 166 treats None and the empty string alike (falsy).
None == <<>>

Filters == {None} \cup Priorities

RECURSIVE LStrip(_)
LStrip(s) ==
    IF s # <<>> /\ Head(s) \in Whitespace THEN LStrip(Tail(s)) ELSE s

RECURSIVE RStrip(_)
RStrip(s) ==
    IF s # <<>> /\ s[Len(s)] \in Whitespace
    THEN RStrip(SubSeq(s, 1, Len(s) - 1))
    ELSE s

\* str.strip()
Strip(s) == RStrip(LStrip(s))

\* ------------------------------------------------------------------ JSON

Digits == <<"0", "1", "2", "3", "4", "5", "6", "7", "8", "9">>

\* json.dump of an int: its decimal digits.
RECURSIVE IntToText(_)
IntToText(n) ==
    IF n < 10
    THEN <<Digits[n + 1]>>
    ELSE IntToText(n \div 10) \o <<Digits[(n % 10) + 1]>>

DigitValue(c) == CHOOSE k \in 0..9 : Digits[k + 1] = c

\* json.load of a number token.
RECURSIVE TextToInt(_)
TextToInt(t) ==
    IF Len(t) = 1
    THEN DigitValue(t[1])
    ELSE 10 * TextToInt(SubSeq(t, 1, Len(t) - 1)) + DigitValue(t[Len(t)])

\* json.dump of one task dict: an object of typed tokens, keys in insertion order.
JsonDumpTask(t) ==
    [id         |-> [type |-> "number",  text |-> IntToText(t.id)],
     title      |-> [type |-> "string",  text |-> t.title],
     priority   |-> [type |-> "string",  text |-> t.priority],
     completed  |-> [type |-> "literal", text |-> IF t.completed THEN "true" ELSE "false"],
     created_at |-> [type |-> "string",  text |-> t.created_at]]

\* json.dump(self.tasks_list, ...): the array, in list order.
JsonDump(tasks) == [k \in 1..Len(tasks) |-> JsonDumpTask(tasks[k])]

JsonLoadTaskNoBool(o) ==
    [id         |-> TextToInt(o.id.text),
     title      |-> o.title.text,
     priority   |-> o.priority.text,
     completed  |-> FALSE,
     created_at |-> o.created_at.text]

\* json.load of one object of the array.
JsonLoadTask(o) ==
    [id         |-> TextToInt(o.id.text),
     title      |-> o.title.text,
     priority   |-> o.priority.text,
     completed  |-> (o.completed.text = "true"),
     created_at |-> o.created_at.text]

\* json.load(f) of a file that holds an array.
JsonLoad(data) == [k \in 1..Len(data) |-> JsonLoadTask(data[k])]

\* --------------------------------------------------------------- sorting

\* The dict literal priority_order of lines 162 and 258.
priority_order(p) ==
    CASE p = High -> 1
      [] p = Medium -> 2
      [] p = Low -> 3

InsertByKeyUnstable(sorted, t) ==
    LET before == SelectSeq(sorted, LAMBDA x : priority_order(x.priority) < priority_order(t.priority))
        after == SelectSeq(sorted, LAMBDA x : priority_order(x.priority) >= priority_order(t.priority))
    IN before \o <<t>> \o after

\* One step of a stable sort: t goes after every element whose key is <= its own.
InsertByKey(sorted, t) ==
    LET before == SelectSeq(sorted, LAMBDA x : priority_order(x.priority) <= priority_order(t.priority))
        after == SelectSeq(sorted, LAMBDA x : priority_order(x.priority) > priority_order(t.priority))
    IN before \o <<t>> \o after

\* sorted(tasks, key=lambda task: priority_order[task["priority"]]); sorted() is stable.
RECURSIVE SortedByPriority(_)
SortedByPriority(tasks) ==
    IF tasks = <<>>
    THEN <<>>
    ELSE InsertByKey(SortedByPriority(SubSeq(tasks, 1, Len(tasks) - 1)),
                     tasks[Len(tasks)])

\* ----------------------------------------------------------------- state

VARIABLES
    heap,        \* the task dicts alive in memory: address -> task
    tasks_list,  \* self.tasks_list: addresses, in list order
    tasks_dict,  \* self.tasks_dict: id -> address
    next_id,     \* self.next_id
    file,        \* the file self.filename: [kind, data]
    report,      \* what the last call printed, in order
    shown,       \* the tasks the last list_tasks / sort_by_priority produced
    raised,      \* an exception left the last call (the process is gone)
    faults,      \* I/O errors injected so far
    assigned,    \* history: every id add_task has given out, over the file's life
    issued       \* history: the ids add_task has given out in this run

vars == <<heap, tasks_list, tasks_dict, next_id, file, report, shown, raised,
          faults, assigned, issued>>

\* self.tasks_dict = {}
EmptyDict == [i \in {} |-> 0]

NoOutput == [filter_by |-> None, tasks |-> <<>>]

\* The file does not exist.
AbsentFile == [kind |-> "absent", data |-> <<>>]

\* The file holds text that is not JSON (a write cut short): json.JSONDecodeError.
CorruptFile == [kind |-> "corrupt", data |-> <<>>]

\* The file holds bytes that are not UTF-8 (a write cut inside a multi-byte
\* character; the priorities of main.py are such characters): the read raises
\* UnicodeDecodeError, a ValueError that is neither JSONDecodeError nor IOError.
UndecodableFile == [kind |-> "undecodable", data |-> <<>>]

ArrayFile(data) == [kind |-> "array", data |-> data]

\* The tasks of a list, by value, in list order.
TasksOf(h, l) == [k \in 1..Len(l) |-> h[l[k]]]

IdsOf(h, l) == {h[l[k]].id : k \in 1..Len(l)}

Tasks == TasksOf(heap, tasks_list)

Ids == IdsOf(heap, tasks_list)

Max(S) == CHOOSE x \in S : \A y \in S : y <= x

\* The k-th smallest element of a set of integers.
Kth(S, k) == CHOOSE x \in S : Cardinality({y \in S : y < x}) = k - 1

\* Object lifetime: a task dict lives while tasks_list or tasks_dict refers to it.
\* Addresses are never observed by the program, so the live objects are
\* renumbered: those of the list in list order, then those only the dict holds,
\* by key.
Canon(h, l, d) ==
    LET stale == {i \in DOMAIN d : \A k \in 1..Len(l) : l[k] # d[i]}
        n == Len(l) + Cardinality(stale)
        old(k) == IF k <= Len(l) THEN l[k] ELSE d[Kth(stale, k - Len(l))]
        new(a) == CHOOSE k \in 1..n : old(k) = a
    IN [heap       |-> [k \in 1..n |-> h[old(k)]],
        tasks_list |-> [k \in 1..Len(l) |-> k],
        tasks_dict |-> [i \in DOMAIN d |-> new(d[i])]]

\* The store after a call: its three structures, dead objects collected.
Store(h, l, d) ==
    LET c == Canon(h, l, d)
    IN /\ heap' = c.heap
       /\ tasks_list' = c.tasks_list
       /\ tasks_dict' = c.tasks_dict

\* ------------------------------------------------------------- save_tasks

\* How open(..., "w") and json.dump may end.
SaveOutcomes ==
    {"ok"} \cup (IF faults < MaxFaults
                 THEN {"open_error", "write_error", "write_error_in_char"}
                 ELSE {})

\* The file after save_tasks: open(..., "w") truncates, json.dump writes the array.
save_tasks(f, tasks, outcome) ==
    CASE outcome = "ok" -> ArrayFile(JsonDump(tasks))
      [] outcome = "open_error" -> f
      [] outcome = "write_error" -> CorruptFile
      [] outcome = "write_error_in_char" -> UndecodableFile

\* Lines 84 and 86.
SaveMessage(outcome) == IF outcome = "ok" THEN "saved" ELSE "save_failed"

Persist(h, l, outcome) ==
    /\ file' = save_tasks(file, TasksOf(h, l), outcome)
    /\ faults' = IF outcome = "ok" THEN faults ELSE faults + 1

\* ------------------------------------------------------------- load_tasks

ReadOutcomes ==
    {"ok"} \cup (IF faults < MaxFaults /\ file.kind # "absent"
                 THEN {"io_error"}
                 ELSE {})

\* for task in self.tasks_list: self.tasks_dict[task["id"]] = task
\* The dict is written into, not replaced: keys it held before stay.
RebuildDict(d, loaded, base) ==
    LET ids == {loaded[k].id : k \in 1..Len(loaded)}
    IN [i \in DOMAIN d \cup ids |->
          IF i \in ids
          THEN base + Max({k \in 1..Len(loaded) : loaded[k].id = i})
          ELSE d[i]]

\* if self.tasks_list: self.next_id = max(...) + 1   (no else: next_id stays)
NextIdAfterLoad(n, loaded) ==
    IF loaded # <<>>
    THEN Max({loaded[k].id : k \in 1..Len(loaded)}) + 1
    ELSE n

\* load_tasks on a store (h, l, d, n): the store after it, what it printed, and
\* whether an exception left it.
load_tasks(h, l, d, n, read) ==
    LET failed == [heap |-> h, tasks_list |-> <<>>, tasks_dict |-> EmptyDict,
                   next_id |-> n, report |-> <<"load_failed">>, raised |-> FALSE]
    IN CASE file.kind = "absent" ->
              [heap |-> h, tasks_list |-> l, tasks_dict |-> d, next_id |-> n,
               report |-> <<>>, raised |-> FALSE]
         [] file.kind # "absent" /\ read = "io_error" -> failed
         [] file.kind = "corrupt" /\ read = "ok" -> failed
         [] file.kind = "undecodable" /\ read = "ok" ->
              [heap |-> h, tasks_list |-> l, tasks_dict |-> d, next_id |-> n,
               report |-> <<"UnicodeDecodeError">>, raised |-> TRUE]
         [] file.kind = "array" /\ read = "ok" ->
              LET loaded == JsonLoad(file.data)
                  base == Len(h)
              IN [heap |-> [k \in 1..(base + Len(loaded)) |->
                              IF k <= base THEN h[k] ELSE loaded[k - base]],
                  tasks_list |-> [k \in 1..Len(loaded) |-> base + k],
                  tasks_dict |-> RebuildDict(d, loaded, base),
                  next_id |-> NextIdAfterLoad(n, loaded),
                  report |-> <<"loaded">>,
                  raised |-> FALSE]

Loaded(r, read) ==
    /\ Store(r.heap, r.tasks_list, r.tasks_dict)
    /\ next_id' = r.next_id
    /\ report' = r.report
    /\ raised' = r.raised
    /\ shown' = NoOutput
    /\ faults' = IF read = "ok" THEN faults ELSE faults + 1
    /\ UNCHANGED <<file, assigned>>

\* A call of load_tasks() on the live store.
LoadTasks ==
    /\ ~raised
    /\ \E read \in ReadOutcomes :
          /\ Loaded(load_tasks(heap, tasks_list, tasks_dict, next_id, read), read)
          /\ UNCHANGED issued

\* The program ends and runs again: TodoApp.__init__ builds an empty store with
\* next_id = 1 and calls load_tasks().
Restart ==
    \E read \in ReadOutcomes :
        /\ Loaded(load_tasks(<<>>, <<>>, EmptyDict, 1, read), read)
        /\ issued' = {}

\* --------------------------------------------------------------- add_task

TitleRejectedNever(title) == FALSE

\* if not title   (line 305, after strip())
TitleRejected(title) == title = <<>>

\* if priority not in ["高", "中", "低"]   (line 309)
PriorityRejected(priority) == priority \notin Priorities

NextIdAfterAddSame(n) == n

\* self.next_id += 1
NextIdAfterAdd(n) == n + 1

\* A rejected input: a message, and `continue`.
Reject(message) ==
    /\ report' = <<message>>
    /\ shown' = NoOutput
    /\ UNCHANGED <<heap, tasks_list, tasks_dict, next_id, file, raised, faults,
                   assigned, issued>>

\* add_task(title, priority), lines 104-119.
add_task(title, priority, created_at, outcome) ==
    LET task == [id |-> next_id, title |-> title, priority |-> priority,
                 completed |-> FALSE, created_at |-> created_at]
        a == Len(heap) + 1
        h == [k \in 1..a |-> IF k = a THEN task ELSE heap[k]]
        l == Append(tasks_list, a)
        d == [i \in DOMAIN tasks_dict \cup {next_id} |->
                IF i = next_id THEN a ELSE tasks_dict[i]]
    IN /\ Store(h, l, d)
       /\ next_id' = NextIdAfterAdd(next_id)
       /\ Persist(h, l, outcome)
       /\ report' = <<SaveMessage(outcome), "added">>
       /\ shown' = NoOutput
       /\ assigned' = assigned \cup {next_id}
       /\ issued' = issued \cup {next_id}
       /\ UNCHANGED raised

\* Menu choice "1" of run(), lines 303-312: the inputs are stripped and checked,
\* then add_task is called.
Choice1(raw_title, raw_priority) ==
    /\ ~raised
    /\ LET title == Strip(raw_title)
           priority == IF Strip(raw_priority) = <<>> THEN Medium ELSE Strip(raw_priority)
       IN IF TitleRejected(title)
          THEN Reject("title_empty")
          ELSE IF PriorityRejected(priority)
          THEN Reject("priority_invalid")
          ELSE /\ next_id <= MaxId
               /\ \E created_at \in Timestamps, outcome \in SaveOutcomes :
                     add_task(title, priority, created_at, outcome)

\* ---------------------------------------------------------- complete_task

\* find_task_by_id: self.tasks_dict.get(task_id)
Found(task_id) == task_id \in DOMAIN tasks_dict

\* complete_task(task_id), lines 205-211.
CompleteTask(task_id) ==
    /\ ~raised
    /\ IF Found(task_id)
       THEN \E outcome \in SaveOutcomes :
               LET h == [heap EXCEPT ![tasks_dict[task_id]].completed = TRUE]
               IN /\ Store(h, tasks_list, tasks_dict)
                  /\ Persist(h, tasks_list, outcome)
                  /\ report' = <<SaveMessage(outcome), "completed">>
                  /\ shown' = NoOutput
                  /\ UNCHANGED <<next_id, raised, assigned, issued>>
       ELSE /\ report' = <<"not_found">>
            /\ shown' = NoOutput
            /\ UNCHANGED <<heap, tasks_list, tasks_dict, next_id, file, raised,
                           faults, assigned, issued>>

\* ------------------------------------------------------------ delete_task

DictWithoutKept(d, task_id) == d

\* del self.tasks_dict[task_id]
DictWithout(d, task_id) == [i \in DOMAIN d \ {task_id} |-> d[i]]

\* [t for t in self.tasks_list if t["id"] != task_id]
ListWithout(h, l, task_id) == SelectSeq(l, LAMBDA a : h[a].id # task_id)

SavedListBeforeRemoval(l_before, l_after) == l_before

\* The list save_tasks writes in delete_task: the one already rebuilt (line 242
\* comes before line 244).
SavedList(l_before, l_after) == l_after

InDictAlways(d, task_id) == TRUE

\* if task_id in self.tasks_dict
InDict(d, task_id) == task_id \in DOMAIN d

\* delete_task(task_id), lines 234-246.
DeleteTask(task_id) ==
    /\ ~raised
    /\ IF InDict(tasks_dict, task_id)
       THEN \E outcome \in SaveOutcomes :
               LET d == DictWithout(tasks_dict, task_id)
                   l == ListWithout(heap, tasks_list, task_id)
               IN /\ Store(heap, l, d)
                  /\ Persist(heap, SavedList(tasks_list, l), outcome)
                  /\ report' = <<"deleted", SaveMessage(outcome)>>
                  /\ shown' = NoOutput
                  /\ UNCHANGED <<next_id, raised, assigned, issued>>
       ELSE /\ report' = <<"not_found">>
            /\ shown' = NoOutput
            /\ UNCHANGED <<heap, tasks_list, tasks_dict, next_id, file, raised,
                           faults, assigned, issued>>

\* ---------------------------------------------- list_tasks, sort_by_priority

\* [t for t in self.tasks_list if t["priority"] == filter_by], or the list itself.
TasksToShow(tasks, filter_by) ==
    IF filter_by # None
    THEN SelectSeq(tasks, LAMBDA t : t.priority = filter_by)
    ELSE tasks

\* list_tasks(filter_by), lines 153-185: what it displays.
ListTasks(filter_by) ==
    /\ ~raised
    /\ IF Tasks = <<>>
       THEN /\ report' = <<"no_tasks">>
            /\ shown' = [filter_by |-> filter_by, tasks |-> <<>>]
       ELSE /\ report' = <<"listing">>
            /\ shown' = [filter_by |-> filter_by,
                         tasks |-> SortedByPriority(TasksToShow(Tasks, filter_by))]
    /\ UNCHANGED <<heap, tasks_list, tasks_dict, next_id, file, raised, faults,
                   assigned, issued>>

\* sort_by_priority(), lines 258-263: what it returns.
SortByPriority ==
    /\ ~raised
    /\ report' = <<"sorted">>
    /\ shown' = [filter_by |-> None, tasks |-> SortedByPriority(Tasks)]
    /\ UNCHANGED <<heap, tasks_list, tasks_dict, next_id, file, raised, faults,
                   assigned, issued>>

\* ------------------------------------------------------- the specifications

\* The first run: no file yet, so TodoApp.__init__ leaves the store empty.
Init ==
    /\ heap = <<>>
    /\ tasks_list = <<>>
    /\ tasks_dict = EmptyDict
    /\ next_id = 1
    /\ file = AbsentFile
    /\ report = <<>>
    /\ shown = NoOutput
    /\ raised = FALSE
    /\ faults = 0
    /\ assigned = {}
    /\ issued = {}

\* The program as run() drives it, run after run: the store is loaded once, by
\* the constructor.
Next ==
    \/ \E raw_title \in RawTitles, raw_priority \in RawPriorities :
          Choice1(raw_title, raw_priority)
    \/ \E task_id \in IdInputs : CompleteTask(task_id)
    \/ \E task_id \in IdInputs : DeleteTask(task_id)
    \/ \E filter_by \in Filters : ListTasks(filter_by)
    \/ SortByPriority
    \/ Restart

Spec == Init /\ [][Next]_vars

\* The store as an API: a caller may also call load_tasks() on a live store.
NextApi == Next \/ LoadTasks

SpecApi == Init /\ [][NextApi]_vars

\* ---------------------------------------------------------------- claims

Printed(message) == \E k \in 1..Len(report) : report[k] = message

\* The id of the task at the end of tasks_list (after an add: the new task).
LastId == heap[tasks_list[Len(tasks_list)]].id

StoreAndFile == <<heap, tasks_list, tasks_dict, next_id, file>>

\* C1: in every state of a loaded store driven by Add, Complete and Delete, the
\* keys of tasks_dict are exactly the ids of the tasks in tasks_list, and each
\* id occurs exactly once in tasks_list.
C1_ViewsConsistent ==
    /\ DOMAIN tasks_dict = Ids
    /\ \A i \in Ids :
          Cardinality({k \in 1..Len(tasks_list) : heap[tasks_list[k]].id = i}) = 1

\* Task 1 was added and deleted in this run; task 2 was added and completed.
C1_Witness ==
    /\ issued = {1, 2}
    /\ Ids = {2}
    /\ heap[tasks_dict[2]].completed
    /\ Printed("deleted")

\* C2: within one run, the id an add gives is greater than every id given
\* earlier in the run and every id in the store, and next_id stays greater
\* than every id present.
C2_NewIdGreater ==
    [][Printed("added")' =>
          /\ \A i \in issued \cup Ids \cup DOMAIN tasks_dict : LastId' > i
          /\ \A i \in Ids' \cup DOMAIN tasks_dict' : next_id' > i]_vars

\* An add that follows a delete in the same run.
C2_Witness ==
    /\ Printed("added")
    /\ issued = {1, 2}
    /\ Ids = {2}

\* C3: over the life of the file (adds, deletes, restarts), an id once given
\* to a task is never given to another task. Stated for the runs in which no
\* I/O error has occurred, so that no lost save is needed to refute it.
C3_IdNeverReassigned ==
    [][(Printed("added")' /\ faults' = 0) => LastId' \notin assigned]_vars

\* C4, as claimed: between operations the file's array equals tasks_list (a
\* store that never had a file counts as equal to the empty list).
C4_FileAlwaysEqualsMemory ==
    ~raised =>
        \/ file = AbsentFile /\ Tasks = <<>>
        \/ file = ArrayFile(JsonDump(Tasks))

\* C4, amended: every mutating call runs save_tasks before it returns, and
\* when that save succeeds the file's array equals tasks_list.
C4_SavedFileEqualsMemory ==
    (Printed("added") \/ Printed("completed") \/ Printed("deleted")) =>
        /\ Printed("saved") \/ Printed("save_failed")
        /\ Printed("saved") => file = ArrayFile(JsonDump(Tasks))

\* A delete whose save succeeded, with a task left.
C4_Witness ==
    /\ report = <<"deleted", "saved">>
    /\ Len(tasks_list) = 1
    /\ file.kind = "array"

\* C5: a successful save followed by a load into a fresh store gives back the
\* same tasks, in the same order, with the same field values.
C5_RoundTrip ==
    [][(Printed("saved") /\ report' = <<"loaded">>) => Tasks' = Tasks]_vars

\* A fresh store loaded from a file of two tasks, one of them completed.
C5_Witness ==
    /\ report = <<"loaded">>
    /\ Len(tasks_list) = 2
    /\ \E k \in 1..2 : heap[tasks_list[k]].completed
    /\ \E k \in 1..2 : ~heap[tasks_list[k]].completed

\* C6: loading a file that is present but malformed, or that cannot be read,
\* does not raise: it reports the failure, leaves the store empty and leaves
\* the file as it was.
C6_MalformedLoadNonFatal ==
    [][(Restart /\ (file.kind \in {"corrupt", "undecodable"} \/ faults' # faults)) =>
          /\ ~raised'
          /\ report' = <<"load_failed">>
          /\ tasks_list' = <<>>
          /\ DOMAIN tasks_dict' = {}
          /\ file' = file]_vars

\* C7: Complete or Delete with an id the store does not hold reports "not
\* found" and changes neither the store nor the file.
C7_AbsentIdNoChange ==
    [][\A task_id \in IdInputs :
          (/\ task_id \notin DOMAIN tasks_dict \cup Ids
           /\ CompleteTask(task_id) \/ DeleteTask(task_id)) =>
              /\ report' = <<"not_found">>
              /\ UNCHANGED StoreAndFile]_vars

\* "Not found" was reported on a store that holds a task.
C7_Witness ==
    /\ report = <<"not_found">>
    /\ Len(tasks_list) >= 1
    /\ assigned \ Ids # {}

\* What the user typed is rejected: a blank title, or a priority that is
\* neither blank (the default applies) nor one of the three.
InvalidInput(raw_title, raw_priority) ==
    \/ \A k \in 1..Len(raw_title) : raw_title[k] \in Whitespace
    \/ /\ \E k \in 1..Len(raw_priority) : raw_priority[k] \notin Whitespace
       /\ \A p \in Priorities : Strip(raw_priority) # p

TasksValid ==
    /\ \A a \in DOMAIN heap :
          heap[a].title # <<>> /\ heap[a].priority \in {High, Medium, Low}
    /\ file.kind = "array" =>
          \A k \in 1..Len(file.data) :
             /\ file.data[k].title.text # <<>>
             /\ file.data[k].priority.text \in {High, Medium, Low}

\* C8: an add with an empty title or an invalid priority is rejected and
\* changes neither the store nor the file, so every task always has a
\* non-empty title and one of the three priorities.
C8_InvalidAddRejected ==
    /\ TasksValid
    /\ [][/\ TasksValid'
          /\ \A raw_title \in RawTitles, raw_priority \in RawPriorities :
                (InvalidInput(raw_title, raw_priority) /\ Choice1(raw_title, raw_priority)) =>
                    /\ report' \in {<<"title_empty">>, <<"priority_invalid">>}
                    /\ UNCHANGED StoreAndFile]_vars

\* A priority was rejected (the title had passed) on a store that holds a task.
C8_Witness ==
    /\ report = <<"priority_invalid">>
    /\ Len(tasks_list) >= 1

\* The tasks of rank p among `tasks`, in their order.
OfPriority(tasks, p) == SelectSeq(tasks, LAMBDA t : t.priority = p)

ExpectedListing(filter_by) ==
    LET chosen == SelectSeq(Tasks, LAMBDA t : filter_by = None \/ t.priority = filter_by)
    IN OfPriority(chosen, High) \o OfPriority(chosen, Medium) \o OfPriority(chosen, Low)

ListingCorrect ==
    (report \in {<<"listing">>, <<"sorted">>, <<"no_tasks">>}) =>
        shown.tasks = ExpectedListing(shown.filter_by)

\* C9: list_tasks shows exactly the tasks whose priority is the filter (all of
\* them without a filter), High before Medium before Low, equal priorities in
\* insertion order; list_tasks and sort_by_priority leave the store unchanged.
C9_ListingSortedStable ==
    /\ ListingCorrect
    /\ [][/\ ListingCorrect'
          /\ ((\E filter_by \in Filters : ListTasks(filter_by)) \/ SortByPriority) =>
                UNCHANGED StoreAndFile]_vars

\* An unfiltered listing of two tasks that reorders them.
C9_Witness ==
    /\ report = <<"listing">>
    /\ shown.filter_by = None
    /\ Len(shown.tasks) = 2
    /\ shown.tasks # Tasks

\* C10: after every successful load, whatever the store held before, the keys
\* of tasks_dict are exactly the loaded ids, each mapped to the loaded task
\* object, and next_id is the greatest loaded id plus one, or 1 for an empty
\* array. Stated for the runs in which no I/O error has occurred.
C10_LoadRebuildsIndex ==
    (report = <<"loaded">> /\ faults = 0) =>
        /\ DOMAIN tasks_dict = Ids
        /\ \A k \in 1..Len(tasks_list) :
              tasks_dict[heap[tasks_list[k]].id] = tasks_list[k]
        /\ next_id = IF Tasks = <<>> THEN 1 ELSE Max(Ids) + 1

====
